---- MODULE Spec2Model ----
(***************************************************************************)
(* Azure BYOK endpoint resolution: the URL normaliser (resolveAzureUrl),   *)
(* the surface selector (shouldUseResponsesAPI) and the request-body       *)
(* sanitiser (AzureOpenAIEndpoint.interceptBody).                          *)
(*                                                                         *)
(* JavaScript strings are TLA+ strings; the string methods the code calls  *)
(* (includes, endsWith, slice, toLowerCase, the ^-anchored regex test) are *)
(* operators over them, computed character by character.                   *)
(***************************************************************************)
EXTENDS Integers, Sequences, FiniteSets, TLC

VARIABLES
    modelId,          \* resolveAzureUrl: argument modelId
    url,              \* resolveAzureUrl: argument url
    useResponsesAPI,  \* resolveAzureUrl: argument useResponsesAPI ("undefined" when omitted)
    resolved,         \* outcome of resolveAzureUrl(modelId, url, useResponsesAPI)
    reresolved,       \* outcome of resolveAzureUrl(modelId, resolved.value, useResponsesAPI)
    respelled,        \* outcomes of resolveAzureUrl for url with '/', '/v1', '/v1/' appended
    surfaceId,        \* shouldUseResponsesAPI: argument modelId
    surface,          \* outcome of shouldUseResponsesAPI(surfaceId)
    model,            \* AzureOpenAIEndpoint: this.model
    body,             \* interceptBody: the body object passed in (mutated in place)
    bodyIn,           \* the body as it was when interceptBody was called
    bodyBase,         \* the body as super.interceptBody left it
    intercepted,      \* whether interceptBody has returned
    infoObjs,         \* heap: the IChatModelInformation objects, by reference
    capObjs,          \* heap: their capabilities objects
    supportsObjs,     \* heap: the capabilities.supports objects
    limitsObjs,       \* heap: the capabilities.limits objects
    infoModelId,      \* getModelInfo: argument modelId
    infoBase,         \* the record super.getModelInfo returned, as it was then
    infoResult,       \* outcome of getModelInfo: the reference returned, or the error
    endpoints,        \* the AzureOpenAIEndpoint objects, by reference
    cloned,           \* the last cloneWithTokenOverride call: receiver, argument, result
    request,          \* the last makeChatRequest call: receiver, transport outcome, outcome
    registry,         \* the providers registered with lm, in registration order
    register,         \* the last registerModel call: config, steps taken, outcome
    intercept,        \* the last interceptBody call on an endpoint: body sent, left by base, final
    inflight,         \* the requests in flight through endpoint 1, each with its own body
    pending           \* registerModel calls begun: tickets issued, calls awaiting, order finished

vars == <<modelId, url, useResponsesAPI, resolved, reresolved, respelled,
          surfaceId, surface, model, body, bodyIn, bodyBase, intercepted,
          infoObjs, capObjs, supportsObjs, limitsObjs,
          infoModelId, infoBase, infoResult, endpoints, cloned, request,
          registry, register, intercept, inflight, pending>>

urlVars == <<modelId, url, useResponsesAPI, resolved, reresolved, respelled>>
surfaceVars == <<surfaceId, surface>>
bodyVars == <<model, body, bodyIn, bodyBase, intercepted>>
heapVars == <<infoObjs, capObjs, supportsObjs, limitsObjs>>
infoVars == <<infoModelId, infoBase, infoResult>>

\* the state of the registration workflow and of the endpoints it builds
endpointVars == <<endpoints, cloned, request>>
registerVars == <<registry, register>>
sessionVars == <<intercept, inflight, pending>>
workflowVars == <<heapVars, infoVars, endpointVars, registerVars, sessionVars>>

-----------------------------------------------------------------------------
(* Bounds of the model *)

\* how many path fragments follow the host in a generated deployment URL
MaxPathFrags == 2

\* how many affixes (a prefix, a suffix) surround a family token in a generated model id
MaxAffixes == 1

\* how many endpoint objects exist at most: the constructed one and its clones
MaxEndpoints == 3

\* how many registerModel calls are made at most
MaxRegisterCalls == 2

\* requests in flight through one endpoint at a time
MaxInFlight == 2

-----------------------------------------------------------------------------
(* String.prototype methods used by the code *)

\* s.includes(t)
Includes(s, t) ==
    \E i \in 0..(Len(s) - Len(t)) : SubSeq(s, i + 1, i + Len(t)) = t

\* s.endsWith(t)
EndsWith(s, t) ==
    /\ Len(s) >= Len(t)
    /\ SubSeq(s, Len(s) - Len(t) + 1, Len(s)) = t

\* s.slice(0, -n)
SliceOffEnd(s, n) ==
    IF Len(s) >= n THEN SubSeq(s, 1, Len(s) - n) ELSE ""

\* one character of s.toLowerCase()
LowerChar(c) ==
    CASE c = "A" -> "a" [] c = "B" -> "b" [] c = "C" -> "c" [] c = "D" -> "d"
      [] c = "E" -> "e" [] c = "F" -> "f" [] c = "G" -> "g" [] c = "H" -> "h"
      [] c = "I" -> "i" [] c = "J" -> "j" [] c = "K" -> "k" [] c = "L" -> "l"
      [] c = "M" -> "m" [] c = "N" -> "n" [] c = "O" -> "o" [] c = "P" -> "p"
      [] c = "Q" -> "q" [] c = "R" -> "r" [] c = "S" -> "s" [] c = "T" -> "t"
      [] c = "U" -> "u" [] c = "V" -> "v" [] c = "W" -> "w" [] c = "X" -> "x"
      [] c = "Y" -> "y" [] c = "Z" -> "z" [] OTHER -> c

RECURSIVE LowerFrom(_, _)
LowerFrom(s, i) ==
    IF i > Len(s) THEN ""
    ELSE LowerChar(SubSeq(s, i, i)) \o LowerFrom(s, i + 1)

\* s.toLowerCase()
toLowerCase(s) == LowerFrom(s, 1)

-----------------------------------------------------------------------------
(* Outcomes of a call: a returned value or a thrown Error with its message *)

Return(v) == [kind |-> "return", value |-> v]
Throw(msg) == [kind |-> "throw", value |-> msg]
NotCalled == [kind |-> "notcalled", value |-> ""]

\* truthiness of the optional boolean parameter useResponsesAPI
Truthy(f) == f = "true"

-----------------------------------------------------------------------------
(* azureUtils.ts: resolveAzureUrl *)

\* the guard that only recognises a chat-completions URL as already resolved
AlreadyResolved_OnlyChat(u) ==
    Includes(u, "/chat/completions")

\* the guard that looks for the marker at the end of the URL only
AlreadyResolved_AtEnd(u) ==
    EndsWith(u, "/chat/completions") \/ EndsWith(u, "/responses")

\* if (url.includes('/chat/completions') || url.includes('/responses'))
AlreadyResolved(u) ==
    Includes(u, "/chat/completions") \/ Includes(u, "/responses")

\* trailing slash removed, '/v1' left in place
StripTrailing_KeepV1(u) ==
    IF EndsWith(u, "/") THEN SliceOffEnd(u, 1) ELSE u

\* the two removals in the opposite order
StripTrailing_V1First(u) ==
    LET u1 == IF EndsWith(u, "/v1") THEN SliceOffEnd(u, 3) ELSE u
    IN  IF EndsWith(u1, "/") THEN SliceOffEnd(u1, 1) ELSE u1

\* remove the trailing slash, then a trailing '/v1'
StripTrailing(u) ==
    LET u1 == IF EndsWith(u, "/") THEN SliceOffEnd(u, 1) ELSE u
    IN  IF EndsWith(u1, "/v1") THEN SliceOffEnd(u1, 3) ELSE u1

\* classification that falls back to the gateway shape instead of throwing
Classify_DefaultGateway(m, u, f) ==
    IF Includes(u, "models.ai.azure.com") \/ Includes(u, "inference.ml.azure.com")
    THEN IF Truthy(f)
         THEN Return(u \o "/v1/responses")
         ELSE Return(u \o "/v1/chat/completions")
    ELSE IF Truthy(f)
         THEN Return(u \o "/openai/v1/responses?api-version=2025-04-01-preview")
         ELSE Return(u \o "/openai/deployments/" \o m
                       \o "/chat/completions?api-version=2025-04-01-preview")

\* classification that ignores the surface flag on the inference topology
Classify_RawIgnoresFlag(m, u, f) ==
    IF Includes(u, "models.ai.azure.com") \/ Includes(u, "inference.ml.azure.com")
    THEN Return(u \o "/v1/chat/completions")
    ELSE IF Includes(u, "openai.azure.com")
    THEN IF Truthy(f)
         THEN Return(u \o "/openai/v1/responses?api-version=2025-04-01-preview")
         ELSE Return(u \o "/openai/deployments/" \o m
                       \o "/chat/completions?api-version=2025-04-01-preview")
    ELSE Throw("Unrecognized Azure deployment URL: " \o u)

\* classification that tests the gateway marker before the inference markers
Classify_GatewayFirst(m, u, f) ==
    IF Includes(u, "openai.azure.com")
    THEN IF Truthy(f)
         THEN Return(u \o "/openai/v1/responses?api-version=2025-04-01-preview")
         ELSE Return(u \o "/openai/deployments/" \o m
                       \o "/chat/completions?api-version=2025-04-01-preview")
    ELSE IF Includes(u, "models.ai.azure.com") \/ Includes(u, "inference.ml.azure.com")
    THEN IF Truthy(f)
         THEN Return(u \o "/v1/responses")
         ELSE Return(u \o "/v1/chat/completions")
    ELSE Throw("Unrecognized Azure deployment URL: " \o u)

\* the if / else if / else over the trimmed url, with the four template strings
Classify(m, u, f) ==
    IF Includes(u, "models.ai.azure.com") \/ Includes(u, "inference.ml.azure.com")
    THEN IF Truthy(f)
         THEN Return(u \o "/v1/responses")
         ELSE Return(u \o "/v1/chat/completions")
    ELSE IF Includes(u, "openai.azure.com")
    THEN IF Truthy(f)
         THEN Return(u \o "/openai/v1/responses?api-version=2025-04-01-preview")
         ELSE Return(u \o "/openai/deployments/" \o m
                       \o "/chat/completions?api-version=2025-04-01-preview")
    ELSE Throw("Unrecognized Azure deployment URL: " \o u)

resolveAzureUrl(m, u, f) ==
    IF AlreadyResolved(u)
    THEN Return(u)
    ELSE Classify(m, StripTrailing(u), f)

-----------------------------------------------------------------------------
(* azureUtils.ts: shouldUseResponsesAPI *)

responsesAPIModels ==
    { "o1", "o3", "o3-mini", "o4-mini", "codex-mini", "o3-pro",
      "gpt-4.1", "gpt-4.1-mini", "gpt-4.1-nano", "gpt-image-1",
      "computer-use-preview" }

\* the match without the toLowerCase() call
shouldUseResponsesAPI_CaseSensitive(m) ==
    \E t \in responsesAPIModels : Includes(m, t)

\* responsesAPIModels.some(model => modelId.toLowerCase().includes(model))
shouldUseResponsesAPI(m) ==
    \E t \in responsesAPIModels : Includes(toLowerCase(m), t)

-----------------------------------------------------------------------------
(* azureOpenAIEndpoint.ts: AzureOpenAIEndpoint.isOSeriesModel, interceptBody *)

\* s.startsWith(t): what the ^-anchored alternatives of the regex test
StartsWith(s, t) ==
    /\ Len(s) >= Len(t)
    /\ SubSeq(s, 1, Len(t)) = t

\* /^(o1|o3|o4|codex-mini)/.test(modelId.toLowerCase())
isOSeriesModel(m) ==
    \E t \in {"o1", "o3", "o4", "codex-mini"} : StartsWith(toLowerCase(m), t)

\* A request body: undefined, or an object with some of its parameters present.
\* A present parameter holds a JavaScript value, written as its literal;
\* "undefined" is a present key whose value is undefined.
BodyKeys == {"temperature", "top_p", "max_tokens"}
NumberValues == {"1", "0.1"}
JsValues == NumberValues \cup {"undefined", "null"}

UndefinedBody == [defined |-> FALSE, fields |-> [k \in {} |-> "undefined"]]
ObjectBody(f) == [defined |-> TRUE, fields |-> f]

\* 'key' in body
HasKey(b, k) == k \in DOMAIN b.fields

\* body[key]: undefined when the key is absent
Get(b, k) == IF HasKey(b, k) THEN b.fields[k] ELSE "undefined"

\* delete body[key]
Delete(b, k) ==
    [b EXCEPT !.fields = [j \in (DOMAIN b.fields) \ {k} |-> b.fields[j]]]

\* the o-series branch that leaves temperature in place
StripOSeriesParams_KeepTemperature(b) ==
    IF HasKey(b, "top_p") /\ Get(b, "top_p") # "undefined" /\ Get(b, "top_p") # "1"
    THEN Delete(b, "top_p")
    ELSE b

\* the two deletions inside `if (body && this.isOSeriesModel(this.model))`
StripOSeriesParams(b) ==
    LET b1 == IF HasKey(b, "temperature") THEN Delete(b, "temperature") ELSE b
    IN  IF HasKey(b1, "top_p") /\ Get(b1, "top_p") # "undefined"
                               /\ Get(b1, "top_p") # "1"
        THEN Delete(b1, "top_p")
        ELSE b1

\* the sanitiser applied whatever the model
sanitize_AnyModel(b, m) ==
    IF b.defined THEN StripOSeriesParams(b) ELSE b

\* what interceptBody does after super.interceptBody(body) has returned
sanitize(b, m) ==
    IF b.defined /\ isOSeriesModel(m) THEN StripOSeriesParams(b) ELSE b

\* super.interceptBody(body) (OpenAIEndpoint and above): it is handed the same
\* reference, so an undefined body stays undefined; of an object it may keep
\* each parameter as it was sent, remove it, or set it to a number.
BaseInterceptBody(b) ==
    IF b.defined
    THEN {ObjectBody(f) : f \in
            {g \in UNION {[S -> JsValues] : S \in SUBSET BodyKeys} :
                \A k \in DOMAIN g :
                    \/ g[k] \in NumberValues
                    \/ HasKey(b, k) /\ g[k] = b.fields[k]}}
    ELSE {b}

\* the override with the stripping done before the base class is called
interceptBody_SanitizeFirst(b, m) ==
    {[base |-> x, final |-> x] : x \in BaseInterceptBody(sanitize(b, m))}

\* interceptBody(body): super.interceptBody(body), then the stripping, on the
\* one body object; each result pairs the body as the base class left it
\* with the body as interceptBody leaves it
interceptBody(b, m) ==
    {[base |-> x, final |-> sanitize(x, m)] : x \in BaseInterceptBody(b)}

-----------------------------------------------------------------------------
(* azureProvider.ts: AzureBYOKModelRegistry.isOSeriesModel, supportsResponsesAPI,
   supportsVision, getModelInfo *)

\* the registry's test without the toLowerCase() call
registry_isOSeriesModel_CaseSensitive(m) ==
    \E t \in {"o1", "o3", "o4", "codex-mini"} : StartsWith(m, t)

\* the registry's own copy: /^(o1|o3|o4|codex-mini)/.test(modelId.toLowerCase())
registry_isOSeriesModel(m) ==
    \E t \in {"o1", "o3", "o4", "codex-mini"} : StartsWith(toLowerCase(m), t)

\* return shouldUseResponsesAPI(modelId)
\* the registry never asking for the Responses API
supportsResponsesAPI_Never(m) == FALSE

supportsResponsesAPI(m) == shouldUseResponsesAPI(m)

visionModels ==
    {"gpt-4o", "gpt-4.1", "gpt-image-1", "o1", "o3", "o4-mini", "codex-mini", "o3-pro"}

\* visionModels.some(model => modelId.toLowerCase().includes(model))
supportsVision(m) ==
    \E t \in visionModels : Includes(toLowerCase(m), t)

\* the limits with the context window set to the input size alone
OSeriesLimits_ContextIsInput ==
    [max_context_window_tokens |-> 200000,
     max_prompt_tokens |-> 200000,
     max_output_tokens |-> 100000]

\* the object literal assigned to baseInfo.capabilities.limits
OSeriesLimits ==
    [max_context_window_tokens |-> 300000,
     max_prompt_tokens |-> 200000,
     max_output_tokens |-> 100000]

\* the branches with the second one taken by every id that contains 'gpt-4'
InfoBranch_AnyGpt4(m) ==
    IF registry_isOSeriesModel(m) THEN "o-series"
    ELSE IF Includes(toLowerCase(m), "gpt-4") THEN "gpt-4"
    ELSE "other"

\* which branch of getModelInfo a model id takes
InfoBranch(m) ==
    IF registry_isOSeriesModel(m) THEN "o-series"
    ELSE IF Includes(toLowerCase(m), "gpt-4o") \/ Includes(toLowerCase(m), "gpt-4.1")
    THEN "gpt-4"
    ELSE "other"

\* the o-series literal that spreads the old flags and sets tool_calls only
NewSupports_KeepsVision(m, old) ==
    IF InfoBranch(m) = "o-series"
    THEN [old EXCEPT !.tool_calls = TRUE]
    ELSE [old EXCEPT !.tool_calls = TRUE, !.vision = TRUE]

\* { ...baseInfo.capabilities.supports, tool_calls: true, vision: ... }
NewSupports(m, old) ==
    IF InfoBranch(m) = "o-series"
    THEN [old EXCEPT !.tool_calls = TRUE, !.vision = supportsVision(m)]
    ELSE [old EXCEPT !.tool_calls = TRUE, !.vision = TRUE]

\* A model-information record by value, as super.getModelInfo builds it.
Baseline(id, supports, limits) == [id |-> id, supports |-> supports, limits |-> limits]
NoBaseline ==
    Baseline("", [streaming |-> FALSE, tool_calls |-> FALSE, vision |-> FALSE],
             [max_context_window_tokens |-> 0, max_prompt_tokens |-> 0,
              max_output_tokens |-> 0])

\* the limits a baseline may carry: the defaults, a small model's, a window
\* smaller than prompt plus output, a large model's
BaselineLimits ==
    { [max_context_window_tokens |-> 128000, max_prompt_tokens |-> 100000,
       max_output_tokens |-> 8192],
      [max_context_window_tokens |-> 8192, max_prompt_tokens |-> 4096,
       max_output_tokens |-> 4096],
      [max_context_window_tokens |-> 4096, max_prompt_tokens |-> 4096,
       max_output_tokens |-> 4096],
      [max_context_window_tokens |-> 1000000, max_prompt_tokens |-> 900000,
       max_output_tokens |-> 100000] }

BaselineSupports ==
    [streaming : {TRUE}, tool_calls : BOOLEAN, vision : BOOLEAN]

\* super.getModelInfo(modelId, apiKey, modelCapabilities)
\* (BaseOpenAICompatibleBYOKRegistry): a record for this model id, built from
\* defaults and the descriptor's overrides, or a rejection.
BaseGetModelInfo(m) ==
    {Return(Baseline(m, s, l)) : s \in BaselineSupports, l \in BaselineLimits}
        \cup {[kind |-> "throw", value |-> "model info unavailable"]}

\* the record an info reference stands for, read through the heap
InfoValue(infos, caps, supps, lims, r) ==
    LET c == caps[infos[r].capabilities]
    IN  Baseline(infos[r].id, supps[c.supports], lims[c.limits])

InfoNotCalled == [kind |-> "notcalled", ref |-> 0, error |-> ""]

\* getModelInfo(modelId, apiKey, modelCapabilities): await the base record, then
\* assign new supports (and, for o-series, limits) objects to its capabilities
GetModelInfoOf(m, base) ==
    IF base.kind = "throw"
    THEN /\ infoResult' = [kind |-> "throw", ref |-> 0, error |-> base.value]
         /\ UNCHANGED <<heapVars, infoBase>>
    ELSE LET b == base.value
             branch == InfoBranch(m)
             infoRef == Len(infoObjs) + 1
             capRef == Len(capObjs) + 1
             s0 == Len(supportsObjs) + 1
             l0 == Len(limitsObjs) + 1
             newS == branch # "other"
             newL == branch = "o-series"
         IN  /\ infoBase' = b
             /\ infoObjs' = Append(infoObjs,
                    [id |-> b.id, capabilities |-> capRef,
                     maxInputTokens |-> [present |-> FALSE, value |-> 0]])
             /\ supportsObjs' =
                    IF newS
                    THEN supportsObjs \o <<b.supports, NewSupports(m, b.supports)>>
                    ELSE Append(supportsObjs, b.supports)
             /\ limitsObjs' =
                    IF newL
                    THEN limitsObjs \o <<b.limits, OSeriesLimits>>
                    ELSE Append(limitsObjs, b.limits)
             /\ capObjs' = Append(capObjs,
                    [supports |-> IF newS THEN s0 + 1 ELSE s0,
                     limits |-> IF newL THEN l0 + 1 ELSE l0])
             /\ infoResult' = [kind |-> "return", ref |-> infoRef, error |-> ""]

\* a getModelInfo call on its own
GetModelInfo ==
    /\ infoResult.kind = "notcalled"
    /\ \E base \in BaseGetModelInfo(infoModelId) : GetModelInfoOf(infoModelId, base)
    /\ UNCHANGED <<infoModelId, urlVars, surfaceVars, bodyVars, endpointVars,
                   registerVars, sessionVars>>

-----------------------------------------------------------------------------
(* azureOpenAIEndpoint.ts: AzureOpenAIEndpoint constructor, cloneWithTokenOverride,
   makeChatRequest *)

\* new AzureOpenAIEndpoint(modelInfo, apiKey, modelUrl): the three private fields
Endpoint(infoRef, apiKey, modelUrl) ==
    [_azureModelInfo |-> infoRef, _azureApiKey |-> apiKey, _azureModelUrl |-> modelUrl,
     class |-> "AzureOpenAIEndpoint"]

\* this.model: the id of the model information the endpoint was built over
EndpointModel(infos, ep) == infos[ep._azureModelInfo].id

NotCloned == [from |-> 0, tokens |-> 0, to |-> 0]

NoIntercept ==
    [endpoint |-> 0, sent |-> UndefinedBody, base |-> UndefinedBody,
     final |-> UndefinedBody]

NothingPending == [begun |-> 0, waiting |-> {}, finished |-> <<>>]

\* A value a promise rejects with: an object (with or without a message
\* property), a string, undefined or null.  Objects have an identity.
ErrorObject(id, msg) ==
    [type |-> "object", id |-> id, hasMessage |-> TRUE, message |-> msg]
BareObject(id) ==
    [type |-> "object", id |-> id, hasMessage |-> FALSE, message |-> ""]
Primitive(type, text) ==
    [type |-> type, id |-> 0, hasMessage |-> FALSE, message |-> text]
NothingThrown == Primitive("none", "")

\* JavaScript truthiness of a thrown value
TruthyValue(e) ==
    \/ e.type = "object"
    \/ e.type = "string" /\ e.message # ""

\* the catch block that tests the message for 'authentication' only
CatchBlock_AuthenticationOnly(e, freshId) ==
    IF /\ TruthyValue(e) /\ e.type = "object" /\ e.hasMessage
       /\ Includes(e.message, "authentication")
    THEN ErrorObject(freshId, "Azure OpenAI authentication failed: " \o e.message
                                \o ". Please check your API key configuration.")
    ELSE e

\* the catch block that wraps every error object
CatchBlock_WrapsAll(e, freshId) ==
    IF TruthyValue(e) /\ e.type = "object" /\ e.hasMessage
    THEN ErrorObject(freshId, "Azure OpenAI authentication failed: " \o e.message
                                \o ". Please check your API key configuration.")
    ELSE e

\* catch (error) { ... }: the value makeChatRequest rejects with
CatchBlock(e, freshId) ==
    IF /\ TruthyValue(e) /\ e.type = "object" /\ e.hasMessage
       /\ (Includes(e.message, "auth") \/ Includes(e.message, "authentication"))
    THEN ErrorObject(freshId, "Azure OpenAI authentication failed: " \o e.message
                                \o ". Please check your API key configuration.")
    ELSE e

\* the identity of an error raised by the transport, and of one created here
TransportErrorId == 1
WrapperErrorId == 2

\* super.makeChatRequest(...) (OpenAIEndpoint and the transport below it):
\* a response, or a rejection with some value
BaseMakeChatRequest ==
    {[kind |-> "return", response |-> "chat response", thrown |-> NothingThrown]}
        \cup {[kind |-> "throw", response |-> "", thrown |-> e] : e \in
                { ErrorObject(TransportErrorId, "invalid authentication token"),
                  ErrorObject(TransportErrorId, "401 Unauthorized"),
                  ErrorObject(TransportErrorId, "Authentication required"),
                  ErrorObject(TransportErrorId, "network timeout"),
                  BareObject(TransportErrorId),
                  Primitive("string", "auth failure"),
                  Primitive("string", ""),
                  Primitive("undefined", ""),
                  Primitive("null", "") }}

\* the arguments of makeChatRequest that tell one call from another: debugName,
\* messages, the cancellation token, location and requestOptions; the other
\* optional arguments are left out by the caller
ChatArguments(debugName, messages, token, location, requestOptions) ==
    [debugName |-> debugName, messages |-> messages, token |-> token,
     location |-> location, requestOptions |-> requestOptions]

NoArguments == ChatArguments("", "", "", "", "")

\* super.makeChatRequest(debugName, messages, finishedCb, token, location, ...):
\* every parameter is passed on in its own position
SuperArguments(args) == args

\* the call that tries the base request a second time when the first rejects
makeChatRequest_RetriesOnce(args, first, second) ==
    IF first.kind = "return"
    THEN [passed |-> <<SuperArguments(args)>>, transport |-> first, outcome |-> first]
    ELSE [passed |-> <<SuperArguments(args), SuperArguments(args)>>,
          transport |-> second,
          outcome |-> IF second.kind = "return" THEN second
                      ELSE [kind |-> "throw", response |-> "",
                            thrown |-> CatchBlock(second.thrown, WrapperErrorId)]]

\* makeChatRequest(...): one awaited call of the base request inside try, with
\* what it resolves to returned; on rejection, the catch block.  `second` is
\* what a further call of the base request would give; none is made.
makeChatRequest(args, first, second) ==
    [passed |-> <<SuperArguments(args)>>,
     transport |-> first,
     outcome |-> IF first.kind = "return" THEN first
                 ELSE [kind |-> "throw", response |-> "",
                       thrown |-> CatchBlock(first.thrown, WrapperErrorId)]]

\* what the base request would give if it were called once more: an answer
BaseMakeChatRequestAgain == {t \in BaseMakeChatRequest : t.kind = "return"}

NoRequest ==
    [endpoint |-> 0, transportCalls |-> 0, args |-> NoArguments, passed |-> <<>>,
     transport |-> [kind |-> "notcalled", response |-> "", thrown |-> NothingThrown],
     outcome |-> [kind |-> "notcalled", response |-> "", thrown |-> NothingThrown]]

\* endpoint.makeChatRequest(...) with some arguments, against a transport that
\* may answer or reject
MakeChatRequest(e, args) ==
    /\ \E first \in BaseMakeChatRequest, second \in BaseMakeChatRequestAgain :
          LET r == makeChatRequest(args, first, second)
          IN  request' =
                 [endpoint |-> e, transportCalls |-> Len(r.passed), args |-> args,
                  passed |-> r.passed, transport |-> r.transport,
                  outcome |-> r.outcome]
    /\ UNCHANGED <<endpoints, cloned, heapVars, infoVars, registerVars,
                   sessionVars, urlVars, surfaceVars, bodyVars>>

\* { ...this._azureModelInfo, maxInputTokens: modelMaxPromptTokens }
NewModelInfo(info, n) ==
    [info EXCEPT !.maxInputTokens = [present |-> TRUE, value |-> n]]

\* the copy that also writes the override into the receiver's own record
CloneInfoObjs_InPlace(infos, r, n) ==
    Append([infos EXCEPT ![r] = NewModelInfo(infos[r], n)], NewModelInfo(infos[r], n))

\* const newModelInfo = { ... }: a new object; the receiver's is left alone
CloneInfoObjs(infos, r, n) == Append(infos, NewModelInfo(infos[r], n))

\* the clone built as a plain OpenAIEndpoint
CloneEndpoint_BaseClass(infoRef, receiver) ==
    [Endpoint(infoRef, receiver._azureApiKey, receiver._azureModelUrl)
        EXCEPT !.class = "OpenAIEndpoint"]

\* createInstance(AzureOpenAIEndpoint, newModelInfo, this._azureApiKey, this._azureModelUrl)
CloneEndpoint(infoRef, receiver) ==
    Endpoint(infoRef, receiver._azureApiKey, receiver._azureModelUrl)

\* endpoint.cloneWithTokenOverride(n): a shallow copy of the model information
\* with maxInputTokens set, and a new endpoint built from it
CloneWithTokenOverride(e, n) ==
    /\ infoObjs' = CloneInfoObjs(infoObjs, endpoints[e]._azureModelInfo, n)
    /\ endpoints' = Append(endpoints, CloneEndpoint(Len(infoObjs) + 1, endpoints[e]))
    /\ cloned' = [from |-> e, tokens |-> n, to |-> Len(endpoints) + 1]
    /\ UNCHANGED <<capObjs, supportsObjs, limitsObjs, request,
                   infoVars, registerVars, sessionVars, urlVars, surfaceVars, bodyVars>>

\* the bodies the base class may leave, of those it can, when an endpoint's
\* interceptBody is exercised: the body as sent, or with a temperature put on it
AdapterBaseBodies ==
    { ObjectBody([k \in {"temperature", "top_p", "max_tokens"} |->
                     IF k = "max_tokens" THEN "1" ELSE "0.1"]),
      ObjectBody([k \in {"top_p"} |-> "1"]),
      ObjectBody([k \in {"temperature", "top_p"} |-> "1"]) }

\* endpoint.interceptBody(body) on endpoint e: the override of
\* AzureOpenAIEndpoint, or for an endpoint of the base class the base method
EndpointInterceptBody(e, b) ==
    /\ \E r \in IF endpoints[e].class = "AzureOpenAIEndpoint"
                THEN interceptBody(b, EndpointModel(infoObjs, endpoints[e]))
                ELSE {[base |-> x, final |-> x] : x \in BaseInterceptBody(b)} :
          /\ r.base \in AdapterBaseBodies
          /\ intercept' = [endpoint |-> e, sent |-> b, base |-> r.base, final |-> r.final]
    /\ UNCHANGED <<inflight, pending, endpointVars, heapVars, infoVars, registerVars,
                   urlVars, surfaceVars, bodyVars>>

\* the arguments of a request made of an adapter under mixed calls
AdapterArguments ==
    ChatArguments("panel chat", "user: hello", "live token", "panel", "undefined")

\* a request in flight: where it is, the body made for it, what the base
\* class left of the body, the body as it is now, and how the transport answered
InFlight(pc, sent, base, b, outcome) ==
    [pc |-> pc, sent |-> sent, base |-> base, body |-> b, outcome |-> outcome]

\* the answers of the transport followed for requests in flight
InFlightTransport ==
    {t \in BaseMakeChatRequest :
        \/ t.kind = "return"
        \/ t.thrown = ErrorObject(TransportErrorId, "invalid authentication token")}

\* makeChatRequest entered: the base class makes the request its own body
BeginRequest(b) ==
    /\ Len(inflight) < MaxInFlight
    /\ inflight' = Append(inflight, InFlight("created", b, b, b, NoRequest.transport))
    /\ UNCHANGED <<intercept, pending, endpointVars, heapVars, infoVars, registerVars,
                   urlVars, surfaceVars, bodyVars>>

\* an interceptBody that strips the body of every request in flight
InterceptInFlight_AllBodies(reqs, i, m) ==
    { [j \in DOMAIN reqs |->
          IF j = i
          THEN InFlight("intercepted", reqs[i].sent, r.base, r.final, reqs[i].outcome)
          ELSE [reqs[j] EXCEPT !.body = sanitize(@, m)]] :
      r \in {x \in interceptBody(reqs[i].body, m) : x.base \in AdapterBaseBodies} }

\* interceptBody(body) for request i: it reads and writes its argument only
InterceptInFlight(reqs, i, m) ==
    { [reqs EXCEPT ![i] = InFlight("intercepted", @.sent, r.base, r.final, @.outcome)] :
      r \in {x \in interceptBody(reqs[i].body, m) : x.base \in AdapterBaseBodies} }

\* the interceptBody step of request i on endpoint 1
InFlightIntercept(i) ==
    /\ inflight[i].pc = "created"
    /\ inflight' \in InterceptInFlight(inflight, i, EndpointModel(infoObjs, endpoints[1]))
    /\ UNCHANGED <<intercept, pending, endpointVars, heapVars, infoVars, registerVars,
                   urlVars, surfaceVars, bodyVars>>

\* the transport step of request i: the body goes out as it is, and
\* makeChatRequest settles with the answer or with what its catch block throws
InFlightTransmit(i) ==
    /\ inflight[i].pc = "intercepted"
    /\ \E first \in InFlightTransport, second \in BaseMakeChatRequestAgain :
          inflight' = [inflight EXCEPT ![i] =
                          InFlight("done", @.sent, @.base, @.body,
                                   makeChatRequest(AdapterArguments, first, second).outcome)]
    /\ UNCHANGED <<intercept, pending, endpointVars, heapVars, infoVars, registerVars,
                   urlVars, surfaceVars, bodyVars>>

-----------------------------------------------------------------------------
(* azureProvider.ts: registerModel *)

\* a BYOKModelConfig: the model id, and the deployment URL and API key it may carry
Config(m, hasUrl, u, hasKey, k) ==
    [modelId |-> m, hasDeploymentUrl |-> hasUrl, deploymentUrl |-> u,
     hasApiKey |-> hasKey, apiKey |-> k]

\* isPerModelConfig(config): the config carries a deployment URL and an API key
isPerModelConfig(config) == config.hasDeploymentUrl /\ config.hasApiKey

\* this.name, set by the constructor
ProviderName == "Azure"

\* the order that resolves the URL before anything else
RegisterSteps_ResolveFirst ==
    << "resolveAzureUrl", "getModelInfo", "supportsResponsesAPI",
       "chatModelInfoToProviderMetadata", "createInstance(AzureOpenAIEndpoint)",
       "createInstance(CopilotLanguageModelWrapper)", "registerChatModelProvider" >>

\* the calls registerModel makes after its guard, in program order
RegisterSteps ==
    << "getModelInfo", "supportsResponsesAPI", "resolveAzureUrl",
       "chatModelInfoToProviderMetadata", "createInstance(AzureOpenAIEndpoint)",
       "createInstance(CopilotLanguageModelWrapper)", "registerChatModelProvider" >>

\* the calls made when the call named is the last one reached
StepsThrough(name) ==
    SubSeq(RegisterSteps, 1,
           CHOOSE i \in 1..Len(RegisterSteps) : RegisterSteps[i] = name)

\* the catch block that logs and returns normally
RegisterCatch_Swallows(e) == Return("undefined")

\* catch (e) { logger.error(...); throw e; }
RegisterCatch(e) == e

\* registerModel from line 109 on: each call is reached only when the ones
\* before it returned; the first rejection or throw ends the call
AfterGuard(base, urlOut, endpointOut, wrapperOut, lmOut) ==
    IF base.kind = "throw"
    THEN [steps |-> StepsThrough("getModelInfo"), outcome |-> Throw(base.value),
          logged |-> FALSE]
    ELSE IF urlOut.kind = "throw"
    THEN [steps |-> StepsThrough("resolveAzureUrl"), outcome |-> urlOut,
          logged |-> FALSE]
    ELSE IF endpointOut.kind = "throw"
    THEN [steps |-> StepsThrough("createInstance(AzureOpenAIEndpoint)"),
          outcome |-> RegisterCatch(endpointOut), logged |-> TRUE]
    ELSE IF wrapperOut.kind = "throw"
    THEN [steps |-> StepsThrough("createInstance(CopilotLanguageModelWrapper)"),
          outcome |-> RegisterCatch(wrapperOut), logged |-> TRUE]
    ELSE IF lmOut.kind = "throw"
    THEN [steps |-> StepsThrough("registerChatModelProvider"),
          outcome |-> RegisterCatch(lmOut), logged |-> TRUE]
    ELSE [steps |-> StepsThrough("registerChatModelProvider"), outcome |-> lmOut,
          logged |-> FALSE]

\* registerModel without its guard
RegisterFlow_NoGuard(perModel, base, urlOut, endpointOut, wrapperOut, lmOut) ==
    AfterGuard(base, urlOut, endpointOut, wrapperOut, lmOut)

\* registerModel: the guard of lines 105-107, then the rest
RegisterFlow(perModel, base, urlOut, endpointOut, wrapperOut, lmOut) ==
    IF ~perModel
    THEN [steps |-> <<>>,
          outcome |-> Throw("Azure BYOK models require both deployment URL and API key"),
          logged |-> FALSE]
    ELSE AfterGuard(base, urlOut, endpointOut, wrapperOut, lmOut)

\* the record super.getModelInfo resolves to during a registration: the
\* defaults, or a rejection
RegisterBaselines(m) ==
    {b \in BaseGetModelInfo(m) :
        \/ b.kind = "throw"
        \/ /\ b.value.limits.max_context_window_tokens = 128000
           /\ ~b.value.supports.tool_calls /\ ~b.value.supports.vision}

\* instantiationService.createInstance(AzureOpenAIEndpoint, ...)
CreateEndpoint == {Return("endpoint"), Throw("cannot instantiate AzureOpenAIEndpoint")}

\* instantiationService.createInstance(CopilotLanguageModelWrapper, ...)
CreateWrapper == {Return("provider"), Throw("cannot instantiate CopilotLanguageModelWrapper")}

\* lm.registerChatModelProvider(id, provider, metadata): a disposable with the
\* provider added, or a throw with nothing added
RegisterChatModelProvider == {Return("disposable"), Throw("provider registration refused")}

\* the registry emptied by a call that did not add to it
RegistryAfter_ClearsOnFailure(reg, added, entry) ==
    IF added THEN Append(reg, entry) ELSE <<>>

\* the registry after a registerModel call: lm.registerChatModelProvider is
\* the only call that touches it, and adds the one provider when it returns
RegistryAfter(reg, added, entry) ==
    IF added THEN Append(reg, entry) ELSE reg

NotRegistering ==
    [n |-> 0, config |-> Config("", FALSE, "", FALSE, ""), steps |-> <<>>,
     outcome |-> NotCalled, logged |-> FALSE, useResponsesAPI |-> "notcalled",
     derive |-> NotCalled, resolve |-> NotCalled, construct |-> NotCalled,
     wrap |-> NotCalled, lm |-> NotCalled, endpoint |-> 0, registryCalls |-> 0,
     registryBefore |-> <<>>, endpointsBefore |-> 0, infosBefore |-> 0]

\* registerModel(config), the whole call
RegisterModel(config) ==
    /\ \E flag \in {supportsResponsesAPI(config.modelId)} :
       \E urlOut \in {resolveAzureUrl(config.modelId, config.deploymentUrl,
                                      IF flag THEN "true" ELSE "false")} :
       \E base \in RegisterBaselines(config.modelId), endpointOut \in CreateEndpoint,
          wrapperOut \in CreateWrapper, lmOut \in RegisterChatModelProvider :
          LET flagArg == IF flag THEN "true" ELSE "false"
              flow == RegisterFlow(isPerModelConfig(config), base, urlOut,
                                   endpointOut, wrapperOut, lmOut)
              ran(step) == \E i \in 1..Len(flow.steps) : flow.steps[i] = step
              seen(step, out) == IF ran(step) THEN out ELSE NotCalled
              built == ran("createInstance(AzureOpenAIEndpoint)")
                          /\ endpointOut.kind = "return"
              added == ran("registerChatModelProvider") /\ lmOut.kind = "return"
          IN  /\ IF ran("getModelInfo")
                 THEN /\ infoModelId' = config.modelId
                      /\ GetModelInfoOf(config.modelId, base)
                 ELSE UNCHANGED <<heapVars, infoVars>>
              /\ endpoints' =
                    IF built
                    THEN Append(endpoints,
                                Endpoint(infoResult'.ref, config.apiKey, urlOut.value))
                    ELSE endpoints
              /\ registry' =
                    RegistryAfter(registry, added,
                                  [id |-> ProviderName \o "-" \o config.modelId,
                                   provider |-> Len(endpoints) + 1,
                                   call |-> register.n + 1])
              /\ register' =
                    [n |-> register.n + 1, config |-> config, steps |-> flow.steps,
                     outcome |-> flow.outcome, logged |-> flow.logged,
                     useResponsesAPI |->
                        IF ran("supportsResponsesAPI") THEN flagArg
                        ELSE "notcalled",
                     derive |-> seen("getModelInfo",
                                     IF base.kind = "throw" THEN base
                                     ELSE Return("model information")),
                     resolve |-> seen("resolveAzureUrl", urlOut),
                     construct |-> seen("createInstance(AzureOpenAIEndpoint)", endpointOut),
                     wrap |-> seen("createInstance(CopilotLanguageModelWrapper)", wrapperOut),
                     lm |-> seen("registerChatModelProvider", lmOut),
                     endpoint |-> IF built THEN Len(endpoints) + 1 ELSE 0,
                     registryCalls |-> IF ran("registerChatModelProvider") THEN 1 ELSE 0,
                     registryBefore |-> registry,
                     endpointsBefore |-> Len(endpoints),
                     infosBefore |-> Len(infoObjs)]
    /\ UNCHANGED <<cloned, request, intercept, inflight,
                   urlVars, surfaceVars, bodyVars>>

-----------------------------------------------------------------------------
(* Inputs *)

\* deployment hosts a user may paste: the gateway, the two inference hosts, an unknown one
Hosts ==
    { "https://x.openai.azure.com",
      "https://x.models.ai.azure.com",
      "https://x.inference.ml.azure.com",
      "https://unknown-endpoint.com" }

\* what may follow the host, piece by piece
PathFrags ==
    { "/", "/v1", "/api", "/openai.azure.com", "?h=x.models.ai.azure.com",
      "/chat/completions", "/responses" }

RECURSIVE PathsUpTo(_)
PathsUpTo(n) ==
    IF n = 0 THEN {""}
    ELSE LET shorter == PathsUpTo(n - 1)
         IN  shorter \cup {p \o q : p \in shorter, q \in PathFrags}

Urls == {h \o p : h \in Hosts, p \in PathsUpTo(MaxPathFrags)}

\* model ids interpolated into the deployment path
UrlModelIds == {"gpt-4", "o1-preview", "gpt-4o"}

\* true, false, or the argument left out
Flags == {"true", "false", "undefined"}

\* the models the tests call standard, and one family the lists do not know
StandardModels == {"gpt-4", "gpt-4o", "gpt-3.5-turbo", "text-davinci-003"}
FamilyTokens == responsesAPIModels \cup StandardModels \cup {"llama-3"}

UpperChar(c) ==
    CASE c = "a" -> "A" [] c = "b" -> "B" [] c = "c" -> "C" [] c = "d" -> "D"
      [] c = "e" -> "E" [] c = "f" -> "F" [] c = "g" -> "G" [] c = "h" -> "H"
      [] c = "i" -> "I" [] c = "j" -> "J" [] c = "k" -> "K" [] c = "l" -> "L"
      [] c = "m" -> "M" [] c = "n" -> "N" [] c = "o" -> "O" [] c = "p" -> "P"
      [] c = "q" -> "Q" [] c = "r" -> "R" [] c = "s" -> "S" [] c = "t" -> "T"
      [] c = "u" -> "U" [] c = "v" -> "V" [] c = "w" -> "W" [] c = "x" -> "X"
      [] c = "y" -> "Y" [] c = "z" -> "Z" [] OTHER -> c

RECURSIVE UpperFrom(_, _)
UpperFrom(s, i) ==
    IF i > Len(s) THEN ""
    ELSE UpperChar(SubSeq(s, i, i)) \o UpperFrom(s, i + 1)

\* a token as written, in capitals, and with only its first letter capital
CaseVariants(t) ==
    { t, UpperFrom(t, 1), UpperChar(SubSeq(t, 1, 1)) \o SubSeq(t, 2, Len(t)) }

\* what vendors and users put after and before a family name
Suffixes == {"-preview", "-2025-04-16", "1106"}
Prefixes == {"my-"}

RECURSIVE Affixed(_)
Affixed(n) ==
    IF n = 0 THEN UNION {CaseVariants(t) : t \in FamilyTokens}
    ELSE LET fewer == Affixed(n - 1)
         IN  fewer \cup {i \o x : i \in fewer, x \in Suffixes}
                   \cup {x \o i : x \in Prefixes, i \in fewer}

ModelIds == Affixed(MaxAffixes)

\* the model ids of the endpoints whose interceptBody is exercised
EndpointModels == {"o3-mini", "O1-preview", "codex-mini", "o4-mini", "gpt-4o", "my-o1"}

Bodies ==
    {UndefinedBody}
        \cup {ObjectBody(f) : f \in UNION {[S -> JsValues] : S \in SUBSET BodyKeys}}

\* the model ids whose capabilities are derived
InfoModelIds ==
    { "o3-mini", "O1-preview", "o4", "codex-mini", "o3-pro", "o1-gpt-4o",
      "gpt-4o", "GPT-4.1-mini", "gpt-4", "my-o1", "llama-3" }

\* the endpoints of the endpoint specification
EndpointInfoModels == {"o3-mini", "gpt-4o"}
EndpointLimits ==
    { OSeriesLimits,
      [max_context_window_tokens |-> 128000, max_prompt_tokens |-> 100000,
       max_output_tokens |-> 8192] }
ApiKeys == {"key-A", "key-B"}
EndpointUrls ==
    { "https://myres.openai.azure.com/openai/v1/responses?api-version=2025-04-01-preview",
      "https://myres.models.ai.azure.com/v1/chat/completions" }
TokenOverrides == {1000, 200000}

\* the requests made of an endpoint: with a live or a cancelled token
RequestArguments ==
    {ChatArguments("panel chat", "user: hello", token, "panel", "undefined") :
        token \in {"live token", "cancelled token"}}

\* the configs handed to registerModel: complete ones, and ones missing the
\* deployment URL, the API key or both
RegisterModelIds == {"o3-mini", "o4", "gpt-4o"}
DeploymentUrls ==
    { "https://myres.openai.azure.com/",
      "https://myres.models.ai.azure.com",
      "https://unknown-endpoint.com",
      "https://myres.openai.azure.com/openai/deployments/gpt-4o/chat/completions?api-version=2025-01-01-preview" }
RegisterConfigs ==
    {Config(m, TRUE, u, TRUE, "key-A") : m \in RegisterModelIds, u \in DeploymentUrls}
        \cup {Config("o3-mini", TRUE, "https://myres.openai.azure.com/", FALSE, ""),
              Config("o3-mini", FALSE, "", TRUE, "key-A"),
              Config("gpt-4o", FALSE, "", FALSE, "")}

\* the adapter whose calls are mixed: the model it is for, the one request
\* made of it, the bodies it is handed, the budget it is cloned with
AdapterModels == {"o3-mini", "gpt-4o"}
AdapterBodies ==
    { ObjectBody([k \in {"temperature", "top_p", "max_tokens"} |->
                     IF k = "max_tokens" THEN "1" ELSE "0.1"]),
      ObjectBody([k \in {"top_p"} |-> "1"]) }
AdapterTokenOverrides == {1000}

\* the configs of registerModel calls that overlap: two that can succeed,
\* one whose host is not recognised, one without an API key
OverlappingConfigs ==
    { Config("o3-mini", TRUE, "https://myres.openai.azure.com/", TRUE, "key-A"),
      Config("gpt-4o", TRUE, "https://myres.models.ai.azure.com", TRUE, "key-A"),
      Config("o4", TRUE, "https://unknown-endpoint.com", TRUE, "key-A"),
      Config("o3-mini", TRUE, "https://myres.openai.azure.com/", FALSE, "") }

-----------------------------------------------------------------------------
(* State machine *)

NoSurface == [called |-> FALSE, result |-> FALSE]

\* the spellings of one deployment URL that users paste
TrailingSpellings == {"/", "/v1", "/v1/"}
NotRespelled == [t \in TrailingSpellings |-> NotCalled]

UrlIdle ==
    /\ modelId = "gpt-4" /\ url = "" /\ useResponsesAPI = "undefined"
    /\ resolved = NotCalled /\ reresolved = NotCalled
    /\ respelled = NotRespelled

SurfaceIdle == surfaceId = "" /\ surface = NoSurface

BodyIdle ==
    /\ model = "" /\ body = UndefinedBody /\ bodyIn = UndefinedBody
    /\ bodyBase = UndefinedBody /\ intercepted = FALSE

HeapEmpty ==
    /\ infoObjs = <<>> /\ capObjs = <<>>
    /\ supportsObjs = <<>> /\ limitsObjs = <<>>

InfoIdle ==
    /\ infoModelId = "" /\ infoBase = NoBaseline /\ infoResult = InfoNotCalled

EndpointIdle ==
    /\ endpoints = <<>> /\ cloned = NotCloned /\ request = NoRequest

RegisterIdle ==
    /\ registry = <<>> /\ register = NotRegistering

SessionIdle ==
    /\ intercept = NoIntercept /\ inflight = <<>> /\ pending = NothingPending

WorkflowIdle == HeapEmpty /\ InfoIdle /\ EndpointIdle /\ RegisterIdle /\ SessionIdle

\* a caller about to resolve a deployment URL
InitUrl ==
    /\ modelId \in UrlModelIds
    /\ url \in Urls
    /\ useResponsesAPI \in Flags
    /\ resolved = NotCalled
    /\ reresolved = NotCalled
    /\ respelled = NotRespelled
    /\ SurfaceIdle /\ BodyIdle /\ WorkflowIdle

\* a caller about to ask which surface a model uses
InitSurface ==
    /\ surfaceId \in ModelIds
    /\ surface = NoSurface
    /\ UrlIdle /\ BodyIdle /\ WorkflowIdle

\* an endpoint for some model, handed a request body
InitBody ==
    /\ model \in EndpointModels
    /\ body \in Bodies
    /\ bodyIn = body
    /\ bodyBase = body
    /\ intercepted = FALSE
    /\ UrlIdle /\ SurfaceIdle /\ WorkflowIdle

\* resolveAzureUrl(modelId, url, useResponsesAPI)
ResolveAzureUrl ==
    /\ resolved' = resolveAzureUrl(modelId, url, useResponsesAPI)
    /\ UNCHANGED <<modelId, url, useResponsesAPI, reresolved, respelled,
                   surfaceVars, bodyVars, workflowVars>>

\* the URL that was returned is passed to resolveAzureUrl again
ReResolveAzureUrl ==
    /\ resolved.kind = "return"
    /\ reresolved' = resolveAzureUrl(modelId, resolved.value, useResponsesAPI)
    /\ UNCHANGED <<modelId, url, useResponsesAPI, resolved, respelled,
                   surfaceVars, bodyVars, workflowVars>>

\* the same deployment URL, pasted with a trailing '/', '/v1' or '/v1/'
ResolveRespelled ==
    /\ respelled' = [t \in TrailingSpellings |->
                        resolveAzureUrl(modelId, url \o t, useResponsesAPI)]
    /\ UNCHANGED <<modelId, url, useResponsesAPI, resolved, reresolved,
                   surfaceVars, bodyVars, workflowVars>>

\* shouldUseResponsesAPI(surfaceId)
ShouldUseResponsesAPI ==
    /\ surface' = [called |-> TRUE, result |-> shouldUseResponsesAPI(surfaceId)]
    /\ UNCHANGED <<surfaceId, urlVars, bodyVars, workflowVars>>

\* endpoint.interceptBody(body): the base class first, then the o-series stripping
InterceptBody ==
    /\ ~intercepted
    /\ \E r \in interceptBody(body, model) :
          /\ bodyBase' = r.base
          /\ body' = r.final
    /\ intercepted' = TRUE
    /\ UNCHANGED <<model, bodyIn, urlVars, surfaceVars, workflowVars>>

NextUrl == ResolveAzureUrl \/ ReResolveAzureUrl \/ ResolveRespelled
NextSurface == ShouldUseResponsesAPI
NextBody == InterceptBody

SpecUrl == InitUrl /\ [][NextUrl]_vars
SpecSurface == InitSurface /\ [][NextSurface]_vars
SpecBody == InitBody /\ [][NextBody]_vars

\* a registry asked for the capabilities of some model
InitInfo ==
    /\ infoModelId \in InfoModelIds
    /\ infoBase = NoBaseline
    /\ infoResult = InfoNotCalled
    /\ HeapEmpty /\ EndpointIdle /\ RegisterIdle /\ SessionIdle
    /\ UrlIdle /\ SurfaceIdle /\ BodyIdle

NextInfo == GetModelInfo
SpecInfo == InitInfo /\ [][NextInfo]_vars

\* One endpoint constructed over a model information record, as registerModel
\* constructs it; then requests and clones in any order.
InitEndpoint ==
    /\ \E m \in EndpointInfoModels, l \in EndpointLimits,
          k \in ApiKeys, u \in EndpointUrls :
          /\ supportsObjs = <<[streaming |-> TRUE, tool_calls |-> TRUE,
                               vision |-> supportsVision(m)]>>
          /\ limitsObjs = <<l>>
          /\ capObjs = <<[supports |-> 1, limits |-> 1]>>
          /\ infoObjs = <<[id |-> m, capabilities |-> 1,
                           maxInputTokens |-> [present |-> FALSE, value |-> 0]]>>
          /\ endpoints = <<Endpoint(1, k, u)>>
    /\ cloned = NotCloned
    /\ request = NoRequest
    /\ InfoIdle /\ RegisterIdle /\ SessionIdle
    /\ UrlIdle /\ SurfaceIdle /\ BodyIdle

NextEndpoint ==
    \/ \E e \in 1..Len(endpoints), args \in RequestArguments : MakeChatRequest(e, args)
    \/ \E e \in 1..Len(endpoints), n \in TokenOverrides :
          Len(endpoints) < MaxEndpoints /\ CloneWithTokenOverride(e, n)

SpecEndpoint == InitEndpoint /\ [][NextEndpoint]_vars

\* One adapter, as registerModel builds it for a model on the gateway; then
\* requests, body interceptions and clones of it and of its clones, in any order.
InitAdapter ==
    /\ \E m \in AdapterModels :
          /\ supportsObjs = <<[streaming |-> TRUE, tool_calls |-> TRUE,
                               vision |-> supportsVision(m)]>>
          /\ limitsObjs = <<IF registry_isOSeriesModel(m) THEN OSeriesLimits
                            ELSE [max_context_window_tokens |-> 128000,
                                  max_prompt_tokens |-> 100000,
                                  max_output_tokens |-> 8192]>>
          /\ capObjs = <<[supports |-> 1, limits |-> 1]>>
          /\ infoObjs = <<[id |-> m, capabilities |-> 1,
                           maxInputTokens |-> [present |-> FALSE, value |-> 0]]>>
          /\ endpoints =
                <<Endpoint(1, "key-A",
                           resolveAzureUrl(m, "https://myres.openai.azure.com",
                                           IF supportsResponsesAPI(m) THEN "true"
                                           ELSE "false").value)>>
    /\ cloned = NotCloned
    /\ request = NoRequest
    /\ InfoIdle /\ RegisterIdle /\ SessionIdle
    /\ UrlIdle /\ SurfaceIdle /\ BodyIdle

NextAdapter ==
    \/ \E e \in 1..Len(endpoints) : MakeChatRequest(e, AdapterArguments)
    \/ \E e \in 1..Len(endpoints), b \in AdapterBodies : EndpointInterceptBody(e, b)
    \/ \E e \in 1..Len(endpoints), n \in AdapterTokenOverrides :
          Len(endpoints) < MaxEndpoints /\ CloneWithTokenOverride(e, n)

SpecAdapter == InitAdapter /\ [][NextAdapter]_vars

\* Requests through the one adapter, each with its own body, their
\* interceptBody and transport steps in any order.
NextInFlight ==
    \/ \E b \in AdapterBodies : BeginRequest(b)
    \/ \E i \in 1..Len(inflight) : InFlightIntercept(i)
    \/ \E i \in 1..Len(inflight) : InFlightTransmit(i)

SpecInFlight == InitAdapter /\ [][NextInFlight]_vars

\* registerModel calls, one after another, on an empty registry
InitRegister ==
    /\ WorkflowIdle
    /\ UrlIdle /\ SurfaceIdle /\ BodyIdle

NextRegister ==
    \E config \in RegisterConfigs :
        /\ register.n < MaxRegisterCalls
        /\ RegisterModel(config)
        /\ UNCHANGED pending

SpecRegister == InitRegister /\ [][NextRegister]_vars

\* registerModel is async and suspends once, at `await this.getModelInfo(...)`:
\* a call that passes the guard waits there while other calls begin or finish.
\* A call that fails the guard is over before it suspends.
RegisterBegin(config) ==
    /\ pending.begun < MaxRegisterCalls
    /\ IF isPerModelConfig(config)
       THEN /\ pending' = [pending EXCEPT
                              !.begun = @ + 1,
                              !.waiting = @ \cup {[ticket |-> pending.begun + 1,
                                                   config |-> config]}]
            /\ UNCHANGED <<heapVars, infoVars, endpointVars, registerVars,
                           intercept, inflight, urlVars, surfaceVars, bodyVars>>
       ELSE /\ RegisterModel(config)
            /\ pending' = [pending EXCEPT
                              !.begun = @ + 1,
                              !.finished = Append(@, pending.begun + 1)]

\* the awaited model information settles and the call runs to its end
RegisterResume(w) ==
    /\ w \in pending.waiting
    /\ RegisterModel(w.config)
    /\ pending' = [pending EXCEPT !.waiting = @ \ {w},
                                  !.finished = Append(@, w.ticket)]

NextRegisterInterleaved ==
    \/ \E config \in OverlappingConfigs : RegisterBegin(config)
    \/ \E w \in pending.waiting : RegisterResume(w)

SpecRegisterInterleaved == InitRegister /\ [][NextRegisterInterleaved]_vars

-----------------------------------------------------------------------------
(* Vocabulary of the properties *)

RequestPathMarkers == {"/chat/completions", "/responses"}
RawInferenceMarkers == {"models.ai.azure.com", "inference.ml.azure.com"}
GatewayMarker == "openai.azure.com"
HostMarkers == RawInferenceMarkers \cup {GatewayMarker}
PinnedVersion == "2025-04-01-preview"

HasRequestPathMarker(u) == \E k \in RequestPathMarkers : Includes(u, k)

\* position of the first occurrence of t in s, 0 when there is none
FirstIndex(s, t) ==
    LET at == {i \in 1..(Len(s) - Len(t) + 1) : SubSeq(s, i, i + Len(t) - 1) = t}
    IN  IF at = {} THEN 0 ELSE CHOOSE i \in at : \A j \in at : i <= j

\* the authority of a URL: after '://', up to the first '/', '?' or '#'
HostOf(u) ==
    LET p == FirstIndex(u, "://")
        rest == IF p = 0 THEN u ELSE SubSeq(u, p + 3, Len(u))
        stops == {i \in 1..Len(rest) : SubSeq(rest, i, i) \in {"/", "?", "#"}}
        stop == IF stops = {} THEN Len(rest) + 1
                ELSE CHOOSE i \in stops : \A j \in stops : i <= j
    IN  SubSeq(rest, 1, stop - 1)

\* a base URL in canonical form: no request path, no trailing '/' or '/v1'
Canonical(u) ==
    /\ ~HasRequestPathMarker(u)
    /\ ~EndsWith(u, "/")
    /\ ~EndsWith(u, "/v1")

\* the four wire shapes of section 6, by topology and surface
WireShape(b, m, topology, newSurface) ==
    CASE topology = "RawInference" /\ newSurface ->
            b \o "/v1/responses"
      [] topology = "RawInference" /\ ~newSurface ->
            b \o "/v1/chat/completions"
      [] topology = "Gateway" /\ newSurface ->
            b \o "/openai/v1/responses?api-version=" \o PinnedVersion
      [] topology = "Gateway" /\ ~newSurface ->
            b \o "/openai/deployments/" \o m
              \o "/chat/completions?api-version=" \o PinnedVersion

-----------------------------------------------------------------------------
(* Properties of resolveAzureUrl, checked under SpecUrl *)

\* C1: a URL that already contains '/chat/completions' or '/responses' is
\* returned unchanged, whatever the model id and the flag, and never fails.
C1_ResolvedUrlReturnedUnchanged ==
    (resolved.kind # "notcalled" /\ HasRequestPathMarker(url))
        => resolved = Return(url)

\* C1 witness: a '/responses' URL on an unclassifiable host came back as it was
C1_Witness ==
    /\ resolved = Return(url)
    /\ url = "https://unknown-endpoint.com/responses/v1"
    /\ useResponsesAPI = "false"

\* C2: resolving the URL that resolve returned gives that same URL again.
C2_ResolveIdempotent ==
    reresolved.kind # "notcalled" => reresolved = resolved

\* C2 witness: a bare gateway URL was built into a request URL and resolved again
C2_Witness ==
    /\ url = "https://x.openai.azure.com/v1"
    /\ useResponsesAPI = "true"
    /\ resolved = Return("https://x.openai.azure.com/openai/v1/responses?api-version=2025-04-01-preview")
    /\ reresolved = resolved

\* C3: for a normalised base URL without a request-path marker the result is
\* the base followed by the shape of its topology and surface; an omitted flag
\* is the legacy surface.
C3_FourWireShapes ==
    (resolved.kind # "notcalled" /\ Canonical(url))
        => LET newSurface == useResponsesAPI = "true"
               raw == \E k \in RawInferenceMarkers : Includes(url, k)
               gateway == ~raw /\ Includes(url, GatewayMarker)
           IN  /\ raw => resolved =
                     Return(WireShape(url, modelId, "RawInference", newSurface))
               /\ gateway => resolved =
                     Return(WireShape(url, modelId, "Gateway", newSurface))

\* C3 witness: the gateway deployment shape, with the flag left out
C3_Witness ==
    /\ modelId = "gpt-4"
    /\ url = "https://x.openai.azure.com"
    /\ useResponsesAPI = "undefined"
    /\ resolved = Return("https://x.openai.azure.com/openai/deployments/gpt-4/chat/completions?api-version=2025-04-01-preview")

\* C4: a URL with no request-path marker and none of the three host markers
\* fails with the unrecognized-endpoint error, whose message carries the URL
\* as trimmed of its trailing '/' and '/v1'.
C4_UnrecognizedEndpointFails ==
    (/\ resolved.kind # "notcalled"
     /\ ~HasRequestPathMarker(url)
     /\ \A k \in HostMarkers : ~Includes(url, k))
        => /\ resolved.kind = "throw"
           /\ resolved.value =
                 "Unrecognized Azure deployment URL: " \o StripTrailing(url)

\* C4 witness: the unknown host, pasted with '/v1/', is reported without it
C4_Witness ==
    /\ url = "https://unknown-endpoint.com/v1/"
    /\ resolved = Throw("Unrecognized Azure deployment URL: https://unknown-endpoint.com")

\* C5: a URL without a request-path marker whose host contains none of the
\* three host markers fails, even when a marker occurs in its path or query.
C5_HostDecidesTopology ==
    (/\ resolved.kind # "notcalled"
     /\ ~HasRequestPathMarker(url)
     /\ \A k \in HostMarkers : ~Includes(HostOf(url), k))
        => resolved.kind = "throw"

\* C6: a canonical base URL pasted with a trailing '/', '/v1' or '/v1/'
\* resolves to what the canonical form resolves to, failure included.
C6_TrailingSpellingsResolveAlike ==
    (/\ resolved.kind # "notcalled"
     /\ Canonical(url))
        => \A t \in TrailingSpellings :
              respelled[t].kind # "notcalled" => respelled[t] = resolved

\* C6 witness: a gateway base with a path, all three spellings resolved like it
C6_Witness ==
    /\ url = "https://x.openai.azure.com/api"
    /\ resolved.kind = "return"
    /\ \A t \in TrailingSpellings : respelled[t] = resolved

-----------------------------------------------------------------------------
(* Properties of shouldUseResponsesAPI, checked under SpecSurface *)

\* the reasoning-family and advanced-family tokens of section 6
ReasoningTokens == {"o1", "o3", "o3-mini", "o4-mini", "codex-mini", "o3-pro"}
AdvancedTokens ==
    {"gpt-4.1", "gpt-4.1-mini", "gpt-4.1-nano", "gpt-image-1", "computer-use-preview"}
ListedTokens == ReasoningTokens \cup AdvancedTokens

\* a listed token in some letter case, bare or with a vendor suffix appended
NamesListedFamily(m) ==
    \E t \in ListedTokens : \E c \in CaseVariants(t) :
        \/ m = c
        \/ \E x \in Suffixes : m = c \o x

\* the id begins with a listed token, letter case aside
BeginsWithListedToken(m) ==
    \E t \in ListedTokens : StartsWith(toLowerCase(m), t)

\* C7: the selector answers for every id; it answers true for each listed
\* token in any letter case, bare or suffixed, and false for gpt-4, gpt-4o,
\* gpt-3.5-turbo and text-davinci-003.
C7_SelectorTotalCaseInsensitive ==
    surface.called
        => /\ surface.result \in BOOLEAN
           /\ NamesListedFamily(surfaceId) => surface.result = TRUE
           /\ surfaceId \in StandardModels => surface.result = FALSE

\* C7 witness: a capitalised, suffixed reasoning id was sent to the new surface
C7_Witness ==
    /\ surface.called
    /\ surfaceId = "O3-MINI-preview"
    /\ surface.result = TRUE

\* C8: an id that does not begin with any listed token gets the legacy
\* surface, also when a token's characters occur in the middle of the id.
C8_FailSafeDefault ==
    (surface.called /\ ~BeginsWithListedToken(surfaceId))
        => surface.result = FALSE

-----------------------------------------------------------------------------
(* Properties of interceptBody, checked under SpecBody *)

\* the parameters of b other than temperature and top_p are those of a
FrameOutsideSampling(a, b) ==
    /\ a.defined = b.defined
    /\ \A k \in BodyKeys \ {"temperature", "top_p"} :
          /\ HasKey(a, k) = HasKey(b, k)
          /\ Get(a, k) = Get(b, k)

C10_SanitizerFrame ==
    intercepted
        => /\ FrameOutsideSampling(bodyBase, body)
           /\ ~isOSeriesModel(model) => body = bodyBase
           /\ ~bodyBase.defined => body = bodyBase
           /\ (~HasKey(bodyBase, "temperature") /\ ~HasKey(bodyBase, "top_p"))
                 => body = bodyBase

\* C10 witness: a gpt-4o body kept the temperature and top_p it was sent with
C10_Witness ==
    /\ intercepted
    /\ model = "gpt-4o"
    /\ HasKey(bodyBase, "temperature") /\ bodyBase.fields["temperature"] = "0.1"
    /\ HasKey(bodyBase, "top_p") /\ bodyBase.fields["top_p"] = "0.1"
    /\ body = bodyBase

-----------------------------------------------------------------------------
(* Properties of getModelInfo, checked under SpecInfo *)

\* the reasoning-family prefix test of sections 4.3 and 4.4
PassesReasoningPrefixTest(m) ==
    \E t \in {"o1", "o3", "o4", "codex-mini"} : StartsWith(toLowerCase(m), t)

\* the record getModelInfo returned, read through the heap
Derived == InfoValue(infoObjs, capObjs, supportsObjs, limitsObjs, infoResult.ref)

WindowCoversPromptAndOutput(l) ==
    l.max_context_window_tokens >= l.max_prompt_tokens + l.max_output_tokens

\* C11: for a model id passing the reasoning-family prefix test the returned
\* record has the limits 300000 / 200000 / 100000, whatever the baseline had.
C11_ReasoningLimitsFixed ==
    (infoResult.kind = "return" /\ PassesReasoningPrefixTest(infoModelId))
        => /\ Derived.limits.max_context_window_tokens = 300000
           /\ Derived.limits.max_prompt_tokens = 200000
           /\ Derived.limits.max_output_tokens = 100000

\* C11 witness: a capitalised o1 id whose baseline carried a million-token window
C11_Witness ==
    /\ infoResult.kind = "return"
    /\ infoModelId = "O1-preview"
    /\ infoBase.limits.max_context_window_tokens = 1000000
    /\ Derived.limits.max_context_window_tokens = 300000

\* C12 as stated: every returned record has a context window of at least its
\* prompt limit plus its output limit.
C12_WindowInvariantAlways ==
    infoResult.kind = "return" => WindowCoversPromptAndOutput(Derived.limits)

\* C12 as amended: the returned record satisfies the window inequality for
\* every reasoning-family id, and for any other id whenever the baseline
\* satisfied it, since its limits are then the baseline's.
C12_WindowInvariantFromBaseline ==
    infoResult.kind = "return"
        => /\ PassesReasoningPrefixTest(infoModelId)
                 => WindowCoversPromptAndOutput(Derived.limits)
           /\ ~PassesReasoningPrefixTest(infoModelId)
                 => /\ Derived.limits = infoBase.limits
                    /\ WindowCoversPromptAndOutput(infoBase.limits)
                          => WindowCoversPromptAndOutput(Derived.limits)

\* C12 witness: an o-series record over a baseline that broke the inequality
C12_Witness ==
    /\ infoResult.kind = "return"
    /\ infoModelId = "o3-mini"
    /\ ~WindowCoversPromptAndOutput(infoBase.limits)
    /\ WindowCoversPromptAndOutput(Derived.limits)

\* C13: after getModelInfo returns, the baseline record holds the flags and
\* limits it held before, and the returned record is another record.  Under
\* SpecInfo the heap starts empty, so the baseline is information object 1.
C13_BaselineNotMutated ==
    infoResult.kind = "return"
        => /\ InfoValue(infoObjs, capObjs, supportsObjs, limitsObjs, 1) = infoBase
           /\ infoResult.ref # 1

-----------------------------------------------------------------------------
(* Properties of the endpoint, checked under SpecEndpoint *)

\* the transport rejected with an object whose message contains 'auth'
TransportAuthFailure ==
    /\ request.transport.kind = "throw"
    /\ request.transport.thrown.type = "object"
    /\ request.transport.thrown.hasMessage
    /\ Includes(request.transport.thrown.message, "auth")

\* C14: when the transport fails with an error whose message contains 'auth',
\* makeChatRequest fails with a new error object, not the transport's, whose
\* message embeds the original message and says to check the API key
\* configuration.
C14_AuthFailureRewrapped ==
    TransportAuthFailure
        => /\ request.outcome.kind = "throw"
           /\ request.outcome.thrown.type = "object"
           /\ request.outcome.thrown.id # request.transport.thrown.id
           /\ request.outcome.thrown # request.transport.thrown
           /\ Includes(request.outcome.thrown.message, request.transport.thrown.message)
           /\ Includes(request.outcome.thrown.message, "check your API key configuration")

\* C14 witness: a 401 whose message has 'auth' only inside 'Unauthorized'
C14_Witness ==
    /\ request.transport.kind = "throw"
    /\ request.transport.thrown.message = "401 Unauthorized"
    /\ request.outcome.thrown.message =
          "Azure OpenAI authentication failed: 401 Unauthorized. Please check your API key configuration."

\* C15: whenever the transport fails, makeChatRequest fails; and when the
\* failure is not an object whose message contains 'auth', the value
\* makeChatRequest fails with is the very value the transport raised.
C15_NothingSwallowed ==
    request.transport.kind = "throw"
        => /\ request.outcome.kind = "throw"
           /\ ~TransportAuthFailure
                 => request.outcome.thrown = request.transport.thrown

\* C15 witness: a timeout error object has come out as it went in
C15_Witness ==
    /\ request.transport.kind = "throw"
    /\ request.transport.thrown.message = "network timeout"
    /\ request.outcome.kind = "throw"
    /\ request.outcome.thrown = ErrorObject(TransportErrorId, "network timeout")

\* what an endpoint's capability record says, read through the heap
EndpointInfo(e) ==
    InfoValue(infoObjs, capObjs, supportsObjs, limitsObjs, endpoints[e]._azureModelInfo)

\* C16: the endpoint returned by cloneWithTokenOverride(n) is a new one whose
\* capability record has max_prompt_tokens = n, with the receiver's model id,
\* API key and URL and every other capability field equal to the receiver's.
C16_CloneCarriesOverride ==
    cloned.to # 0
        => /\ cloned.to # cloned.from
           /\ EndpointInfo(cloned.to).limits.max_prompt_tokens = cloned.tokens
           /\ EndpointInfo(cloned.to).id = EndpointInfo(cloned.from).id
           /\ endpoints[cloned.to]._azureApiKey = endpoints[cloned.from]._azureApiKey
           /\ endpoints[cloned.to]._azureModelUrl = endpoints[cloned.from]._azureModelUrl
           /\ EndpointInfo(cloned.to).supports = EndpointInfo(cloned.from).supports
           /\ EndpointInfo(cloned.to).limits.max_context_window_tokens
                 = EndpointInfo(cloned.from).limits.max_context_window_tokens
           /\ EndpointInfo(cloned.to).limits.max_output_tokens
                 = EndpointInfo(cloned.from).limits.max_output_tokens

-----------------------------------------------------------------------------
(* Properties of registerModel, checked under SpecRegister *)

\* a registerModel call has been made
Registering == register.n > 0

\* the providers registered under the key of the last call's config
ProvidersFor(reg, m) ==
    {i \in 1..Len(reg) : reg[i].id = "Azure-" \o m}

\* the last registerModel call changed nothing outside itself
NothingTouched ==
    /\ registry = register.registryBefore
    /\ Len(endpoints) = register.endpointsBefore
    /\ Len(infoObjs) = register.infosBefore

\* C17: a registerModel call whose config does not carry both a deployment
\* URL and an API key fails with the missing-fields error, and no other step
\* has run: no getModelInfo, no URL resolution, no endpoint construction, no
\* registry call.
C17_MissingFieldsFailFirst ==
    (Registering /\ ~(register.config.hasDeploymentUrl /\ register.config.hasApiKey))
        => /\ register.outcome
                 = Throw("Azure BYOK models require both deployment URL and API key")
           /\ register.steps = <<>>
           /\ register.derive.kind = "notcalled"
           /\ register.resolve.kind = "notcalled"
           /\ register.construct.kind = "notcalled"
           /\ register.registryCalls = 0
           /\ NothingTouched

\* C17 witness: a config with a URL and no key, refused after an earlier
\* registration had succeeded
C17_Witness ==
    /\ register.n = 2
    /\ register.config.hasDeploymentUrl /\ ~register.config.hasApiKey
    /\ register.outcome.kind = "throw"
    /\ Len(registry) = 1

\* the step of the last call that failed, if one did
FailedStep ==
    {o \in {register.derive, register.resolve, register.construct,
            register.wrap, register.lm} : o.kind = "throw"}

\* C18: when a step of registerModel fails (getModelInfo, resolveAzureUrl,
\* either construction, the registry call), registerModel fails with that
\* step's error, the registry is as it was before the call, and a config that
\* had no provider before the call has none after it.
C18_NoPartialRegistration ==
    (Registering /\ FailedStep # {})
        => /\ \A o \in FailedStep : register.outcome = o
           /\ registry = register.registryBefore
           /\ \A i \in 1..Len(registry) : registry[i].call # register.n
           /\ ProvidersFor(register.registryBefore, register.config.modelId) = {}
                 => ProvidersFor(registry, register.config.modelId) = {}

\* C18 witness: the registry call itself threw, after the endpoint was built
C18_Witness ==
    /\ Registering
    /\ register.lm.kind = "throw"
    /\ register.endpoint # 0
    /\ register.outcome = Throw("provider registration refused")
    /\ registry = register.registryBefore

\* C19: a registerModel call that succeeds has derived the capabilities,
\* selected the surface, resolved the URL, constructed the endpoint and called
\* the registry, in that order; the endpoint registered carries the config's
\* model id and API key and the URL resolveAzureUrl(modelId, deploymentUrl,
\* shouldUseResponsesAPI(modelId)); the registry was called once and holds it
\* under 'Azure-' + modelId.
C19_OrderedRegistration ==
    (Registering /\ register.outcome.kind = "return")
        => /\ register.steps =
                 << "getModelInfo", "supportsResponsesAPI", "resolveAzureUrl",
                    "chatModelInfoToProviderMetadata",
                    "createInstance(AzureOpenAIEndpoint)",
                    "createInstance(CopilotLanguageModelWrapper)",
                    "registerChatModelProvider" >>
           /\ register.endpoint # 0
           /\ infoObjs[endpoints[register.endpoint]._azureModelInfo].id
                 = register.config.modelId
           /\ endpoints[register.endpoint]._azureApiKey = register.config.apiKey
           /\ Return(endpoints[register.endpoint]._azureModelUrl)
                 = resolveAzureUrl(register.config.modelId, register.config.deploymentUrl,
                       IF shouldUseResponsesAPI(register.config.modelId)
                       THEN "true" ELSE "false")
           /\ register.registryCalls = 1
           /\ registry = Append(register.registryBefore,
                                [id |-> "Azure-" \o register.config.modelId,
                                 provider |-> register.endpoint,
                                 call |-> register.n])

\* C19 witness: o3-mini registered on a gateway deployment, second in the registry
C19_Witness ==
    /\ register.n = 2
    /\ register.outcome.kind = "return"
    /\ register.config.modelId = "o3-mini"
    /\ Len(registry) = 2
    /\ registry[2].id = "Azure-o3-mini"
    /\ endpoints[register.endpoint]._azureModelUrl
          = "https://myres.openai.azure.com/openai/v1/responses?api-version=2025-04-01-preview"

\* C20: every model id that passes the prefix test of the registry and of the
\* endpoint is sent to the Responses API by supportsResponsesAPI when it is
\* registered.
C20_ReasoningFamilyOnNewSurface ==
    (/\ Registering /\ register.useResponsesAPI # "notcalled"
     /\ registry_isOSeriesModel(register.config.modelId)
     /\ isOSeriesModel(register.config.modelId))
        => register.useResponsesAPI = "true"

-----------------------------------------------------------------------------
(* Order of the host classification, checked under SpecUrl *)

\* the URL carries an inference marker and the gateway marker, and no request path
BothTopologyMarkers(u) ==
    /\ ~HasRequestPathMarker(u)
    /\ \E k \in RawInferenceMarkers : Includes(u, k)
    /\ Includes(u, GatewayMarker)

\* C21: a URL without a request-path marker that contains both an inference
\* marker and the gateway marker is resolved as an inference endpoint: the
\* result ends in '/v1/responses' or '/v1/chat/completions', by the flag, and
\* has no api-version query and no gateway path.
C21_InferenceMarkerTestedFirst ==
    (resolved.kind # "notcalled" /\ BothTopologyMarkers(url))
        => /\ resolved.kind = "return"
           /\ IF useResponsesAPI = "true"
              THEN EndsWith(resolved.value, "/v1/responses")
              ELSE EndsWith(resolved.value, "/v1/chat/completions")
           /\ ~Includes(resolved.value, "api-version")
           /\ ~Includes(resolved.value, "/openai/v1/")
           /\ ~Includes(resolved.value, "/openai/deployments/")

\* C21 witness: a gateway host with an inference host in its query string
C21_Witness ==
    /\ url = "https://x.openai.azure.com?h=x.models.ai.azure.com"
    /\ useResponsesAPI = "true"
    /\ resolved = Return("https://x.openai.azure.com?h=x.models.ai.azure.com/v1/responses")

-----------------------------------------------------------------------------
(* Order inside interceptBody, checked under SpecBody *)

\* C22: in an interceptBody call the base class has finished with the body
\* before the stripping looks at it: the body that leaves is the body the base
\* class left, less the stripped parameters, so a temperature or a
\* non-default top_p that the base class set or kept on a reasoning-family
\* body is gone.
C22_SanitizerAfterBase ==
    intercepted
        => /\ \A k \in DOMAIN body.fields :
                 HasKey(bodyBase, k) /\ bodyBase.fields[k] = body.fields[k]
           /\ (bodyBase.defined /\ isOSeriesModel(model))
                 => /\ ~HasKey(body, "temperature")
                    /\ (HasKey(bodyBase, "top_p")
                          /\ bodyBase.fields["top_p"] \notin {"1", "undefined"})
                          => ~HasKey(body, "top_p")

\* C22 witness: the base class put a temperature and a top_p of 0.1 on an
\* o3-mini body that was sent without them, and neither left
C22_Witness ==
    /\ intercepted
    /\ model = "o3-mini"
    /\ bodyIn.defined
    /\ ~HasKey(bodyIn, "temperature") /\ ~HasKey(bodyIn, "top_p")
    /\ HasKey(bodyBase, "temperature")
    /\ HasKey(bodyBase, "top_p") /\ bodyBase.fields["top_p"] = "0.1"
    /\ ~HasKey(body, "temperature") /\ ~HasKey(body, "top_p")

-----------------------------------------------------------------------------
(* Branches of getModelInfo, checked under SpecInfo *)

\* the lower-cased id contains one of the vision-capable family names
NamesVisionFamily(m) ==
    \E t \in {"gpt-4o", "gpt-4.1", "gpt-image-1", "o1", "o3", "o4-mini",
              "codex-mini", "o3-pro"} : Includes(toLowerCase(m), t)

\* the lower-cased id contains 'gpt-4o' or 'gpt-4.1'
NamesGpt4Family(m) ==
    Includes(toLowerCase(m), "gpt-4o") \/ Includes(toLowerCase(m), "gpt-4.1")

\* C23: for a model id that passes the reasoning-family prefix test, also one
\* that contains 'gpt-4o' or 'gpt-4.1', the returned record has tool_calls set
\* and vision equal to whether the id names a vision-capable family, whatever
\* the baseline's two flags were.
C23_ReasoningBranchWins ==
    (infoResult.kind = "return" /\ PassesReasoningPrefixTest(infoModelId))
        => /\ Derived.supports.tool_calls = TRUE
           /\ Derived.supports.vision = NamesVisionFamily(infoModelId)
           /\ Derived.limits.max_context_window_tokens = 300000

\* C23 witness: 'o4' names no vision family, and a baseline with vision set
\* and tool calls unset came back with the two flags the other way round
C23_Witness ==
    /\ infoResult.kind = "return"
    /\ infoModelId = "o4"
    /\ infoBase.supports.vision /\ ~infoBase.supports.tool_calls
    /\ ~Derived.supports.vision /\ Derived.supports.tool_calls

\* C24: for a model id that fails the reasoning-family prefix test the three
\* limits are the baseline's; an id containing 'gpt-4o' or 'gpt-4.1' gets
\* tool_calls and vision set, and any other id gets a record equal to the
\* baseline in every field.
C24_OtherBranchesKeepBaseline ==
    (infoResult.kind = "return" /\ ~PassesReasoningPrefixTest(infoModelId))
        => /\ Derived.limits = infoBase.limits
           /\ Derived.id = infoBase.id
           /\ NamesGpt4Family(infoModelId)
                 => /\ Derived.supports.tool_calls /\ Derived.supports.vision
                    /\ Derived.supports.streaming = infoBase.supports.streaming
           /\ ~NamesGpt4Family(infoModelId) => Derived = infoBase

\* C24 witness: a capitalised gpt-4.1 id got both flags and kept a small window
C24_Witness ==
    /\ infoResult.kind = "return"
    /\ infoModelId = "GPT-4.1-mini"
    /\ ~infoBase.supports.tool_calls /\ ~infoBase.supports.vision
    /\ Derived.supports.tool_calls /\ Derived.supports.vision
    /\ Derived.limits.max_context_window_tokens = 8192

-----------------------------------------------------------------------------
(* Single transport call of makeChatRequest, checked under SpecEndpoint *)

\* C25: a makeChatRequest call invokes the base request exactly once, whether
\* it answers or rejects, with the arguments it was given, the cancellation
\* token among them; an answer is returned as it came.
C25_OneTransportCall ==
    request.endpoint # 0
        => /\ request.transportCalls = 1
           /\ request.passed = <<request.args>>
           /\ request.passed[1].token = request.args.token
           /\ request.transport.kind = "return" => request.outcome = request.transport
           /\ request.transport.kind = "throw" => request.outcome.kind = "throw"

\* C25 witness: a request with a cancelled token was rejected with a timeout
\* after one transport call that saw that token
C25_Witness ==
    /\ request.endpoint # 0
    /\ request.args.token = "cancelled token"
    /\ request.transport.kind = "throw"
    /\ request.transport.thrown.message = "network timeout"
    /\ request.transportCalls = 1
    /\ request.passed[1].token = "cancelled token"

-----------------------------------------------------------------------------
(* Properties of an adapter under mixed calls, checked under SpecAdapter *)

\* what an endpoint holds: its three fields and class, the model information
\* object it points at, and the capability record read through it
EndpointView(eps, infos, caps, supps, lims, e) ==
    [fields |-> eps[e],
     modelInfo |-> infos[eps[e]._azureModelInfo],
     record |-> InfoValue(infos, caps, supps, lims, eps[e]._azureModelInfo)]

\* C26: no makeChatRequest, interceptBody or cloneWithTokenOverride call
\* changes the model id, API key, URL or capability record, max_prompt_tokens
\* included, of any endpoint that exists; each is, after any sequence of
\* calls, as it was constructed.
C26_AdapterImmutable ==
    [][\A e \in 1..Len(endpoints) :
          EndpointView(endpoints', infoObjs', capObjs', supportsObjs', limitsObjs', e)
             = EndpointView(endpoints, infoObjs, capObjs, supportsObjs, limitsObjs, e)]_vars

\* C26 witness: endpoint 1 has been cloned, has had a request rejected and a
\* body stripped, and has the prompt limit and the unset maxInputTokens it began with
C26_Witness ==
    /\ cloned.from = 1
    /\ request.endpoint = 1 /\ request.outcome.kind = "throw"
    /\ intercept.endpoint = 1 /\ HasKey(intercept.base, "temperature")
    /\ ~HasKey(intercept.final, "temperature")
    /\ EndpointInfo(1).id = "o3-mini"
    /\ EndpointInfo(1).limits.max_prompt_tokens = 200000
    /\ ~infoObjs[endpoints[1]._azureModelInfo].maxInputTokens.present

\* C30: an endpoint reached from endpoint 1 through any chain of
\* cloneWithTokenOverride calls is an AzureOpenAIEndpoint for the same model
\* id, and its interceptBody leaves of the body the base class left what
\* endpoint 1's would: for a reasoning-family model no temperature and no
\* top_p other than 1 or undefined.
C30_CloneStillSanitizes ==
    intercept.endpoint # 0
        => /\ endpoints[intercept.endpoint].class = "AzureOpenAIEndpoint"
           /\ EndpointModel(infoObjs, endpoints[intercept.endpoint])
                 = EndpointModel(infoObjs, endpoints[1])
           /\ intercept.final
                 = sanitize(intercept.base, EndpointModel(infoObjs, endpoints[1]))
           /\ isOSeriesModel(EndpointModel(infoObjs, endpoints[1]))
                 => /\ ~HasKey(intercept.final, "temperature")
                    /\ HasKey(intercept.final, "top_p")
                          => intercept.final.fields["top_p"] \in {"1", "undefined"}

\* C30 witness: a clone of a clone of an o3-mini endpoint stripped a
\* temperature and a top_p of 0.1
C30_Witness ==
    /\ Len(endpoints) = 3
    /\ endpoints[3]._azureModelInfo = 3
    /\ infoObjs[3].maxInputTokens.present
    /\ cloned = [from |-> 2, tokens |-> 1000, to |-> 3]
    /\ intercept.endpoint = 3
    /\ EndpointModel(infoObjs, endpoints[3]) = "o3-mini"
    /\ HasKey(intercept.base, "temperature") /\ intercept.base.fields["top_p"] = "0.1"
    /\ DOMAIN intercept.final.fields = {"max_tokens"}

-----------------------------------------------------------------------------
(* Properties of overlapping registrations, checked under SpecRegisterInterleaved *)

\* C27: whatever calls began or finished while it waited, a registerModel
\* call that fails leaves the registry as it found it, and one that
\* succeeds leaves it with exactly one more provider, registered under its
\* own model id, after the providers that were there.
C27_RegistrationIsolated ==
    register.n > 0
        => IF register.outcome.kind = "return"
           THEN /\ Len(registry) = Len(register.registryBefore) + 1
                /\ SubSeq(registry, 1, Len(register.registryBefore))
                      = register.registryBefore
                /\ registry[Len(registry)].id
                      = ProviderName \o "-" \o register.config.modelId
                /\ registry[Len(registry)].call = register.n
           ELSE registry = register.registryBefore

\* C27 witness: the second call to begin finished first and registered
\* gpt-4o; the first, for o3-mini, then failed after its await and the
\* gpt-4o provider is still the registry's only one
C27_Witness ==
    /\ pending.finished = <<2, 1>>
    /\ register.config.modelId = "o3-mini"
    /\ register.outcome.kind = "throw"
    /\ register.registryBefore # <<>>
    /\ Len(registry) = 1
    /\ registry[1].id = "Azure-gpt-4o"

-----------------------------------------------------------------------------
(* Properties of requests in flight, checked under SpecInFlight *)

\* the state a request's body is in when the request runs alone: as made
\* until interceptBody ran, then what the base class left with the
\* reasoning-family parameters stripped
AsIfAlone(req, m) ==
    IF req.pc = "created"
    THEN req.body = req.sent
    ELSE /\ req.base \in BaseInterceptBody(req.sent)
         /\ req.body = sanitize(req.base, m)

\* C28: with several requests in flight through one endpoint, every step
\* changes at most one request, leaves every request's body in the state it
\* has when the request runs alone, and leaves the endpoint and its model
\* information as they were.
C28_RequestsDoNotInterfere ==
    [][/\ \A j \in 1..Len(inflight') :
             AsIfAlone(inflight'[j], EndpointModel(infoObjs, endpoints[1]))
       /\ Cardinality({j \in 1..Len(inflight) : inflight'[j] # inflight[j]}) <= 1
       /\ endpoints' = endpoints
       /\ infoObjs' = infoObjs]_vars

\* C28 witness: on an o3-mini endpoint the second request was stripped and
\* rejected while the first, stripped of its temperature, had not gone out,
\* and each body is what its own request made of it
C28_Witness ==
    /\ Len(inflight) = 2
    /\ EndpointModel(infoObjs, endpoints[1]) = "o3-mini"
    /\ inflight[1].pc = "intercepted" /\ inflight[2].pc = "done"
    /\ inflight[2].outcome.kind = "throw"
    /\ HasKey(inflight[1].sent, "temperature") /\ ~HasKey(inflight[1].body, "temperature")
    /\ inflight[2].sent # inflight[1].sent
    /\ inflight[2].body = inflight[2].sent

-----------------------------------------------------------------------------
(* Surface and URL of a registered endpoint, checked under SpecRegister *)

\* the part of a URL before its query string
BeforeQuery(u) ==
    IF Includes(u, "?")
    THEN SubSeq(u, 1, (CHOOSE i \in 1..Len(u) :
                          /\ SubSeq(u, i, i) = "?"
                          /\ ~Includes(SubSeq(u, 1, i - 1), "?")) - 1)
    ELSE u

IsResponsesUrl(u) == EndsWith(BeforeQuery(u), "/responses")
IsChatCompletionsUrl(u) == EndsWith(BeforeQuery(u), "/chat/completions")

\* the endpoint's URL is on the surface shouldUseResponsesAPI names for model m
OnOwnSurface(m, u) ==
    IF shouldUseResponsesAPI(m) THEN IsResponsesUrl(u) ELSE IsChatCompletionsUrl(u)

\* C29 as stated: the URL of every endpoint registerModel builds is a
\* responses URL exactly when shouldUseResponsesAPI(modelId) holds and a
\* chat-completions URL otherwise, whatever deployment URL the config carried.
C29_SurfaceAndUrlAgree ==
    register.endpoint # 0
        => OnOwnSurface(register.config.modelId,
                        endpoints[register.endpoint]._azureModelUrl)

\* C29: the URL of an endpoint registerModel builds from a deployment URL
\* that carries no request-path marker and no query string is a responses URL
\* exactly when shouldUseResponsesAPI(modelId) holds and a chat-completions
\* URL otherwise; a deployment URL that already carries a marker is the
\* endpoint's URL as it is, whatever the model's surface.
C29_SurfaceAndUrlAgreeUnlessResolved ==
    register.endpoint # 0
        => IF AlreadyResolved(register.config.deploymentUrl)
           THEN endpoints[register.endpoint]._azureModelUrl
                    = register.config.deploymentUrl
           ELSE ~Includes(register.config.deploymentUrl, "?")
                    => OnOwnSurface(register.config.modelId,
                                    endpoints[register.endpoint]._azureModelUrl)

\* C29 witness: gpt-4o was registered from a bare inference host and is on
\* chat completions; o3-mini, a Responses API model, was then registered from
\* an already resolved chat-completions URL and has that URL
C29_Witness ==
    /\ Len(registry) = 2
    /\ registry[1].id = "Azure-gpt-4o"
    /\ endpoints[registry[1].provider]._azureModelUrl
          = "https://myres.models.ai.azure.com/v1/chat/completions"
    /\ register.config.modelId = "o3-mini"
    /\ register.outcome.kind = "return"
    /\ shouldUseResponsesAPI("o3-mini")
    /\ AlreadyResolved(register.config.deploymentUrl)
    /\ IsChatCompletionsUrl(endpoints[register.endpoint]._azureModelUrl)

====
